---- MODULE Spec2Model ----
(***************************************************************************)
(* Minesweeper (src/main.py): Board construction with random mine          *)
(* placement, adjacency counting, move validation, the recursive reveal    *)
(* cascade of GameDriver.do_move and the game loop of GameDriver.start.    *)
(***************************************************************************)
EXTENDS Integers, Sequences, FiniteSets, TLC

\* Largest board explored, in cells: board_width * board_height <= MaxCells.
MaxCells == 6

\* Most is_valid_move calls explored between two moves.
MaxAsks == 2

VARIABLES
    board_width,      \* constructor argument board_width
    board_height,     \* constructor argument board_height
    number_of_mines,  \* Board.number_of_mines
    board,            \* Board.board: cell <<x, y>> -> Block (type_, visibility)
    n,                \* make_board's counter of placed mines
    unseen_blocks,    \* GameDriver.unseen_blocks
    pc,               \* where the program is
    stack,            \* active do_move calls, innermost last
    result,           \* MoveResult of the last outermost do_move
    err,              \* the uncaught exception, "none" while there is none
    move,             \* Position passed to the outermost do_move
    before,           \* visible cells and unseen_blocks when that call began
    trace,            \* cells do_move was applied to during that call, in order
    checked,          \* whether request_move validated the move of that call
    moves,            \* number of outermost do_move calls so far
    asked,            \* is_valid_move calls since the last move: the last
                      \* argument and its result, how many calls there
                      \* were, and the result of the call before
    frontier          \* pending positions of a reveal that keeps a frontier

vars == <<board_width, board_height, number_of_mines, board, n, unseen_blocks,
          pc, stack, result, err, move, before, trace, checked, moves, asked,
          frontier>>

config == <<board_width, board_height, number_of_mines>>

----------------------------------------------------------------------------
\* Strings are sequences of one-character strings.

DigitChars == <<"0", "1", "2", "3", "4", "5", "6", "7", "8", "9">>

DIGITS == {DigitChars[i] : i \in 1..Len(DigitChars)}

DigitValue(c) == CHOOSE d \in 0..9 : DigitChars[d + 1] = c

RECURSIVE NatStr(_)
NatStr(k) ==
    IF k < 10 THEN <<DigitChars[k + 1]>>
    ELSE NatStr(k \div 10) \o <<DigitChars[(k % 10) + 1]>>

\* str(int), as the f-string f'{x} {y}' formats each coordinate
IntStr(k) == IF k < 0 THEN <<"-">> \o NatStr(-k) ELSE NatStr(k)

\* f'{x} {y}'
FormatMove(x, y) == IntStr(x) \o <<" ">> \o IntStr(y)

\* str.split(' ')
RECURSIVE Split(_)
Split(s) ==
    IF \A i \in 1..Len(s) : s[i] # " " THEN <<s>>
    ELSE LET k == CHOOSE i \in 1..Len(s) :
                     s[i] = " " /\ \A j \in 1..(i - 1) : s[j] # " "
         IN  <<SubSeq(s, 1, k - 1)>> \o Split(SubSeq(s, k + 1, Len(s)))

\* str.isdigit()
IsDigit(s) == Len(s) > 0 /\ \A i \in 1..Len(s) : s[i] \in DIGITS

RECURSIVE ParseNat(_)
ParseNat(s) ==
    IF Len(s) = 0 THEN 0
    ELSE 10 * ParseNat(SubSeq(s, 1, Len(s) - 1)) + DigitValue(s[Len(s)])

\* int(str) on an optionally signed decimal string
ParseInt(s) == IF s[1] = "-" THEN 0 - ParseNat(Tail(s)) ELSE ParseNat(s)

\* Position.__init__
Position(m) ==
    LET parts == Split(m)
    IN  [x |-> ParseInt(parts[1]), y |-> ParseInt(parts[2])]

----------------------------------------------------------------------------
\* Block and Board

Block(type_) == [type_ |-> type_, visibility |-> "INVISIBLE"]

is_mine(block) == block.type_ = "MINE"

is_invisible(block) == block.visibility = "INVISIBLE"

is_visible(block) == block.visibility = "VISIBLE"

make_visible(block) == [block EXCEPT !.visibility = "VISIBLE"]

\* Board.width and Board.height hold the largest valid index
width == board_width - 1

height == board_height - 1

\* the cells of the list of lists that make_board builds
Cells == (0..(board_width - 1)) \X (0..(board_height - 1))

is_in_valid_height_range(num) == 0 <= num /\ num <= height

is_in_valid_width_range(num) == 0 <= num /\ num <= width

\* list[i]: a negative index counts from the end, anything else out of range
\* raises IndexError
IndexOk(i, len) == 0 - len <= i /\ i < len

ListIndex(i, len) == IF i < 0 THEN len + i ELSE i

\* len(board) and len(board[y]): range() of a negative number is empty
Rows == IF board_height > 0 THEN board_height ELSE 0

Columns == IF board_width > 0 THEN board_width ELSE 0

\* whether board[position.y][position.x] denotes a block
SubscriptOk(position) ==
    IndexOk(position.y, Rows) /\ IndexOk(position.x, Columns)

\* the cell that board[position.y][position.x] denotes
CellOf(position) ==
    <<ListIndex(position.x, Columns), ListIndex(position.y, Rows)>>

get_block(position) == board[CellOf(position)]

Mines == {c \in Cells : is_mine(board[c])}

Visible == {c \in Cells : is_visible(board[c])}

\* the (x, y) pairs of the two nested range loops, in the order visited
Window(position) ==
    [i \in 1..9 |-> [x |-> position.x - 1 + ((i - 1) % 3),
                     y |-> position.y - 1 + ((i - 1) \div 3)]]

\* get_block_near_bombs with the inner loop as range(x - 1, x + 1)
get_block_near_bombs_skip_last_column(position) ==
    Cardinality({i \in 1..9 :
        /\ (i - 1) % 3 # 2
        /\ is_in_valid_height_range(Window(position)[i].y)
        /\ is_in_valid_width_range(Window(position)[i].x)
        /\ is_mine(board[<<Window(position)[i].x, Window(position)[i].y>>])})

\* lines 107-117: the window includes the block at position itself
get_block_near_bombs(position) ==
    Cardinality({i \in 1..9 :
        /\ is_in_valid_height_range(Window(position)[i].y)
        /\ is_in_valid_width_range(Window(position)[i].x)
        /\ is_mine(board[<<Window(position)[i].x, Window(position)[i].y>>])})

----------------------------------------------------------------------------
\* GameDriver queries

\* is_valid_move with x tested against the height and y against the width
is_valid_move_swapped_ranges(m) ==
    LET parts == Split(m)
    IN  /\ Len(parts) = 2
        /\ IsDigit(parts[1]) /\ IsDigit(parts[2])
        /\ LET x == ParseInt(parts[1])
               y == ParseInt(parts[2])
           IN  /\ is_in_valid_height_range(x)
               /\ is_in_valid_width_range(y)
               /\ <<x, y>> \in Cells
               /\ is_invisible(board[<<x, y>>])

\* lines 207-210: the unpacking raises ValueError unless there are two parts
is_valid_move(m) ==
    LET parts == Split(m)
    IN  /\ Len(parts) = 2
        /\ IsDigit(parts[1]) /\ IsDigit(parts[2])
        /\ LET x == ParseInt(parts[1])
               y == ParseInt(parts[2])
           IN  /\ is_in_valid_width_range(x)
               /\ is_in_valid_height_range(y)
               /\ is_invisible(board[<<x, y>>])

\* is_game_over() with < in place of ==
is_game_over_negative == unseen_blocks < 0

is_game_over == unseen_blocks = 0

----------------------------------------------------------------------------
\* Construction: GameDriver.__init__, Board.__init__, Board.make_board

NoHistory == [visible |-> {}, unseen_blocks |-> 0]

NoMove == [x |-> 0, y |-> 0]

NotAsked == [input |-> <<>>, valid |-> FALSE, calls |-> 0, previous |-> FALSE]

InitWith(w, h, m) ==
    /\ board_width = w
    /\ board_height = h
    /\ number_of_mines = m
    /\ board = [c \in (0..(w - 1)) \X (0..(h - 1)) |-> Block("NORMAL")]
    /\ n = 0
    /\ unseen_blocks = 0
    /\ pc = "make_board"
    /\ stack = <<>>
    /\ result = "NONE"
    /\ err = "none"
    /\ move = NoMove
    /\ before = NoHistory
    /\ trace = <<>>
    /\ checked = TRUE
    /\ moves = 0
    /\ asked = NotAsked
    /\ frontier = {}

ValidConfiguration(w, h, m) == w > 0 /\ h > 0 /\ 0 <= m /\ m < w * h

Init ==
    \E w \in 1..MaxCells, h \in 1..MaxCells :
        /\ w * h <= MaxCells
        /\ \E m \in 0..(w * h - 1) : InitWith(w, h, m)

\* the placing loop without the test of line 87
MakeBoardPlaceNoCollisionCheck ==
    /\ pc = "make_board"
    /\ n < number_of_mines
    /\ \E x \in 0..(board_width - 1), y \in 0..(board_height - 1) :
           board' = [board EXCEPT ![<<x, y>>] = Block("MINE")]
    /\ n' = n + 1
    /\ UNCHANGED <<config, moves, asked, frontier, unseen_blocks, pc, stack,
                   result, err, move, before, trace, checked>>

\* one iteration of the placing loop that turns a normal block into a mine
MakeBoardPlace ==
    /\ pc = "make_board"
    /\ n < number_of_mines
    /\ \E x \in 0..(board_width - 1), y \in 0..(board_height - 1) :
           /\ ~is_mine(board[<<x, y>>])
           /\ board' = [board EXCEPT ![<<x, y>>] = Block("MINE")]
    /\ n' = n + 1
    /\ UNCHANGED <<config, moves, asked, frontier, unseen_blocks, pc, stack,
                   result, err, move, before, trace, checked>>

\* one iteration that sampled a block that is already a mine: continue
MakeBoardCollision ==
    /\ pc = "make_board"
    /\ n < number_of_mines
    /\ \E x \in 0..(board_width - 1), y \in 0..(board_height - 1) :
           is_mine(board[<<x, y>>])
    /\ UNCHANGED vars

\* random.randint(0, -1) raises ValueError
MakeBoardRandintFails ==
    /\ pc = "make_board"
    /\ n < number_of_mines
    /\ (board_width <= 0 \/ board_height <= 0)
    /\ pc' = "error"
    /\ err' = "ValueError"
    /\ UNCHANGED <<config, moves, asked, frontier, board, n, unseen_blocks,
                   stack, result, move, before, trace, checked>>

\* the loop ends, Board.__init__ and GameDriver.__init__ finish
MakeBoardReturn ==
    /\ pc = "make_board"
    /\ ~(n < number_of_mines)
    /\ unseen_blocks' = board_height * board_width - number_of_mines
    /\ pc' = "request_move"
    /\ UNCHANGED <<config, moves, asked, frontier, board, n, stack, result,
                   err, move, before, trace, checked>>

----------------------------------------------------------------------------
\* GameDriver.request_move

\* what the player may type: coordinate pairs in and around the board, and
\* lines that are no coordinate pair
Inputs ==
    {FormatMove(x, y) : x \in (0 - 1)..board_width, y \in (0 - 1)..board_height}
    \cup {<<"h">>, <<"1">>, <<"a", " ", "1">>, <<"1", " ", "1", " ", "1">>}

\* the outermost call do_move(position) begins
Call(position) ==
    /\ move' = position
    /\ stack' = <<[move |-> position, i |-> 0]>>
    /\ before' = [visible |-> Visible, unseen_blocks |-> unseen_blocks]
    /\ trace' = <<>>
    /\ result' = "NONE"
    /\ pc' = "do_move"
    /\ moves' = moves + 1
    /\ asked' = NotAsked

\* a valid move is entered and handed to do_move
RequestMove ==
    /\ pc = "request_move"
    /\ \E m \in Inputs :
           /\ is_valid_move(m)
           /\ Call(Position(m))
    /\ UNCHANGED <<config, frontier, board, n, unseen_blocks, err, checked>>

\* 'h' or an invalid move: a message is printed and the loop asks again
RequestMoveInvalid ==
    /\ pc = "request_move"
    /\ \E m \in Inputs : ~is_valid_move(m)
    /\ UNCHANGED vars

\* 'q': exit(0)
RequestMoveQuit ==
    /\ pc = "request_move"
    /\ pc' = "exited"
    /\ UNCHANGED <<config, moves, asked, frontier, board, n, unseen_blocks,
                   stack, result, err, move, before, trace, checked>>

----------------------------------------------------------------------------
\* GameDriver.do_move, one step of the innermost active call at a time.  A
\* frame holds the call's argument and i: 0 before the first statement,
\* 1..9 the iteration of the two nested loops that is next, 10 after them.

Top == stack[Len(stack)]

SetTopIndex(i) == [stack EXCEPT ![Len(stack)].i = i]

\* the innermost call returns r; the value of a nested call is discarded
Return(r) ==
    IF Len(stack) = 1
    THEN stack' = <<>> /\ result' = r /\ pc' = "returned"
    ELSE stack' = SubSeq(stack, 1, Len(stack) - 1) /\ UNCHANGED <<result, pc>>

\* lines 259-266 with the test of line 265 as >= 0
DoMoveEnterNeverCascades ==
    /\ pc = "do_move"
    /\ Top.i = 0
    /\ SubscriptOk(Top.move)
    /\ board' = [board EXCEPT ![CellOf(Top.move)] = make_visible(@)]
    /\ unseen_blocks' = unseen_blocks - 1
    /\ trace' = Append(trace, CellOf(Top.move))
    /\ IF is_mine(get_block(Top.move))
       THEN Return("FOUND_MINE")
       ELSE IF get_block_near_bombs(Top.move) >= 0
            THEN Return("ALL_OK")
            ELSE stack' = SetTopIndex(1) /\ UNCHANGED <<result, pc>>
    /\ UNCHANGED <<config, moves, asked, frontier, n, err, move, before,
                   checked>>

\* lines 259-266 with the test of line 265 as > 1
DoMoveEnterCascadesFromOne ==
    /\ pc = "do_move"
    /\ Top.i = 0
    /\ SubscriptOk(Top.move)
    /\ board' = [board EXCEPT ![CellOf(Top.move)] = make_visible(@)]
    /\ unseen_blocks' = unseen_blocks - 1
    /\ trace' = Append(trace, CellOf(Top.move))
    /\ IF is_mine(get_block(Top.move))
       THEN Return("FOUND_MINE")
       ELSE IF get_block_near_bombs(Top.move) > 1
            THEN Return("ALL_OK")
            ELSE stack' = SetTopIndex(1) /\ UNCHANGED <<result, pc>>
    /\ UNCHANGED <<config, moves, asked, frontier, n, err, move, before,
                   checked>>

\* lines 259-266 with the decrement of line 260 in the outermost call only
DoMoveEnterCountsOutermostOnly ==
    /\ pc = "do_move"
    /\ Top.i = 0
    /\ SubscriptOk(Top.move)
    /\ board' = [board EXCEPT ![CellOf(Top.move)] = make_visible(@)]
    /\ unseen_blocks' = IF Len(stack) = 1 THEN unseen_blocks - 1 ELSE unseen_blocks
    /\ trace' = Append(trace, CellOf(Top.move))
    /\ IF is_mine(get_block(Top.move))
       THEN Return("FOUND_MINE")
       ELSE IF get_block_near_bombs(Top.move) > 0
            THEN Return("ALL_OK")
            ELSE stack' = SetTopIndex(1) /\ UNCHANGED <<result, pc>>
    /\ UNCHANGED <<config, moves, asked, frontier, n, err, move, before,
                   checked>>

\* lines 259-266 with line 259 storing a fresh board in which only the
\* block of the move is visible
DoMoveEnterResetsOthers ==
    /\ pc = "do_move"
    /\ Top.i = 0
    /\ SubscriptOk(Top.move)
    /\ board' = [c \in Cells |->
                    IF c = CellOf(Top.move) THEN make_visible(board[c])
                    ELSE Block(board[c].type_)]
    /\ unseen_blocks' = unseen_blocks - 1
    /\ trace' = Append(trace, CellOf(Top.move))
    /\ IF is_mine(get_block(Top.move))
       THEN Return("FOUND_MINE")
       ELSE IF get_block_near_bombs(Top.move) > 0
            THEN Return("ALL_OK")
            ELSE stack' = SetTopIndex(1) /\ UNCHANGED <<result, pc>>
    /\ UNCHANGED <<config, moves, asked, frontier, n, err, move, before,
                   checked>>

\* lines 259-266: reveal, count, and return unless no bomb is near
DoMoveEnter ==
    /\ pc = "do_move"
    /\ Top.i = 0
    /\ SubscriptOk(Top.move)
    /\ board' = [board EXCEPT ![CellOf(Top.move)] = make_visible(@)]
    /\ unseen_blocks' = unseen_blocks - 1
    /\ trace' = Append(trace, CellOf(Top.move))
    /\ IF is_mine(get_block(Top.move))
       THEN Return("FOUND_MINE")
       ELSE IF get_block_near_bombs(Top.move) > 0
            THEN Return("ALL_OK")
            ELSE stack' = SetTopIndex(1) /\ UNCHANGED <<result, pc>>
    /\ UNCHANGED <<config, moves, asked, frontier, n, err, move, before,
                   checked>>

\* line 259 subscripts the board out of range: IndexError
DoMoveIndexError ==
    /\ pc = "do_move"
    /\ Top.i = 0
    /\ ~SubscriptOk(Top.move)
    /\ pc' = "error"
    /\ err' = "IndexError"
    /\ stack' = <<>>
    /\ UNCHANGED <<config, moves, asked, frontier, board, n, unseen_blocks,
                   result, move, before, trace, checked>>

\* the loop without the test of line 277
DoMoveLoopRevisits ==
    /\ pc = "do_move"
    /\ Top.i \in 1..9
    /\ LET p == Window(Top.move)[Top.i]
       IN  IF (~is_in_valid_height_range(p.y)) \/ (~is_in_valid_width_range(p.x))
           THEN stack' = SetTopIndex(Top.i + 1)
           ELSE stack' = Append(SetTopIndex(Top.i + 1),
                                [move |-> Position(FormatMove(p.x, p.y)), i |-> 0])
    /\ UNCHANGED <<config, moves, asked, frontier, board, n, unseen_blocks,
                   pc, result, err, move, before, trace, checked>>

\* the loop with the inner range as range(move.x - 1, move.x + 1)
DoMoveLoopSkipsLastColumn ==
    /\ pc = "do_move"
    /\ Top.i \in 1..9
    /\ LET p == Window(Top.move)[Top.i]
       IN  IF (~is_in_valid_height_range(p.y)) \/ (~is_in_valid_width_range(p.x))
           THEN stack' = SetTopIndex(Top.i + 1)
           ELSE IF is_invisible(board[<<p.x, p.y>>]) /\ (Top.i - 1) % 3 # 2
                THEN stack' = Append(SetTopIndex(Top.i + 1),
                                     [move |-> Position(FormatMove(p.x, p.y)),
                                      i |-> 0])
                ELSE stack' = SetTopIndex(Top.i + 1)
    /\ UNCHANGED <<config, moves, asked, frontier, board, n, unseen_blocks,
                   pc, result, err, move, before, trace, checked>>

\* lines 270-278: one iteration of the nested loops over the 3x3 window
DoMoveLoop ==
    /\ pc = "do_move"
    /\ Top.i \in 1..9
    /\ LET p == Window(Top.move)[Top.i]
       IN  IF (~is_in_valid_height_range(p.y)) \/ (~is_in_valid_width_range(p.x))
           THEN stack' = SetTopIndex(Top.i + 1)
           ELSE IF is_invisible(board[<<p.x, p.y>>])
                THEN stack' = Append(SetTopIndex(Top.i + 1),
                                     [move |-> Position(FormatMove(p.x, p.y)),
                                      i |-> 0])
                ELSE stack' = SetTopIndex(Top.i + 1)
    /\ UNCHANGED <<config, moves, asked, frontier, board, n, unseen_blocks,
                   pc, result, err, move, before, trace, checked>>

\* line 280: the loops are over
DoMoveReturn ==
    /\ pc = "do_move"
    /\ Top.i = 10
    /\ Return("ALL_OK")
    /\ UNCHANGED <<config, moves, asked, frontier, board, n, unseen_blocks,
                   err, move, before, trace, checked>>

----------------------------------------------------------------------------
\* GameDriver.start, lines 298-306: what the loop does with do_move's result.
\* The loop only ever gets the result of a move that request_move validated.

\* lines 298-306 with the test of is_game_over() before that of the result
StartCheckResultGameOverFirst ==
    /\ pc = "returned"
    /\ checked
    /\ IF is_game_over
       THEN pc' = "won" /\ UNCHANGED <<result, move, before, trace>>
       ELSE IF result = "FOUND_MINE"
            THEN pc' = "lost" /\ UNCHANGED <<result, move, before, trace>>
            ELSE /\ pc' = "request_move"
                 /\ result' = "NONE"
                 /\ move' = NoMove
                 /\ before' = NoHistory
                 /\ trace' = <<>>
    /\ UNCHANGED <<config, moves, asked, frontier, board, n, unseen_blocks,
                   stack, err, checked>>

StartCheckResult ==
    /\ pc = "returned"
    /\ checked
    /\ IF result = "FOUND_MINE"
       THEN pc' = "lost" /\ UNCHANGED <<result, move, before, trace>>
       ELSE IF is_game_over
            THEN pc' = "won" /\ UNCHANGED <<result, move, before, trace>>
            ELSE /\ pc' = "request_move"
                 /\ result' = "NONE"
                 /\ move' = NoMove
                 /\ before' = NoHistory
                 /\ trace' = <<>>
    /\ UNCHANGED <<config, moves, asked, frontier, board, n, unseen_blocks,
                   stack, err, checked>>

----------------------------------------------------------------------------
Next ==
    \/ MakeBoardPlace
    \/ MakeBoardCollision
    \/ MakeBoardReturn
    \/ RequestMove
    \/ RequestMoveInvalid
    \/ RequestMoveQuit
    \/ DoMoveEnter
    \/ DoMoveLoop
    \/ DoMoveReturn
    \/ StartCheckResult

Spec == Init /\ [][Next]_vars

\* The interpreter runs an active do_move call to its end.
FairSpec == Spec /\ WF_vars(DoMoveEnter \/ DoMoveLoop \/ DoMoveReturn)

----------------------------------------------------------------------------
\* A game in which the player never types 'q' and keeps entering valid
\* moves, and the interpreter keeps running.

NextPlay ==
    \/ MakeBoardPlace
    \/ MakeBoardCollision
    \/ MakeBoardReturn
    \/ RequestMove
    \/ RequestMoveInvalid
    \/ DoMoveEnter
    \/ DoMoveLoop
    \/ DoMoveReturn
    \/ StartCheckResult

PlaySpec ==
    /\ Init
    /\ [][NextPlay]_vars
    /\ WF_vars(RequestMove)
    /\ WF_vars(DoMoveEnter \/ DoMoveLoop \/ DoMoveReturn)
    /\ WF_vars(StartCheckResult)

----------------------------------------------------------------------------
\* do_move as a function: what the call do_move(position) makes of the set
\* of visible cells and of unseen_blocks, and the cells it reveals, in the
\* order of the code (row-major over the 3x3 window, depth first).

RECURSIVE do_move_result(_, _, _), do_move_loop(_, _, _, _)

\* lines 270-280 with the inner range as range(move.x - 1, move.x + 1)
do_move_loop_skip_last_column(seen, position, i, revealed) ==
    IF i = 10
    THEN [visible |-> seen.visible, unseen_blocks |-> seen.unseen_blocks,
          result |-> "ALL_OK", trace |-> revealed]
    ELSE LET p == Window(position)[i]
         IN  IF (~is_in_valid_height_range(p.y)) \/ (~is_in_valid_width_range(p.x))
             THEN do_move_loop(seen, position, i + 1, revealed)
             ELSE IF <<p.x, p.y>> \notin seen.visible /\ (i - 1) % 3 # 2
                  THEN LET r == do_move_result(seen, p, revealed)
                       IN  do_move_loop(r, position, i + 1, r.trace)
                  ELSE do_move_loop(seen, position, i + 1, revealed)

\* lines 270-280: the loops from iteration i on, then return ALL_OK
do_move_loop(seen, position, i, revealed) ==
    IF i = 10
    THEN [visible |-> seen.visible, unseen_blocks |-> seen.unseen_blocks,
          result |-> "ALL_OK", trace |-> revealed]
    ELSE LET p == Window(position)[i]
         IN  IF (~is_in_valid_height_range(p.y)) \/ (~is_in_valid_width_range(p.x))
             THEN do_move_loop(seen, position, i + 1, revealed)
             ELSE IF <<p.x, p.y>> \notin seen.visible
                  THEN LET r == do_move_result(seen, p, revealed)
                       IN  do_move_loop(r, position, i + 1, r.trace)
                  ELSE do_move_loop(seen, position, i + 1, revealed)

\* lines 259-266, then the loops
do_move_result(seen, position, revealed) ==
    LET now == [visible |-> seen.visible \cup {CellOf(position)},
                unseen_blocks |-> seen.unseen_blocks - 1]
        order == Append(revealed, CellOf(position))
    IN  IF is_mine(get_block(position))
        THEN [visible |-> now.visible, unseen_blocks |-> now.unseen_blocks,
              result |-> "FOUND_MINE", trace |-> order]
        ELSE IF get_block_near_bombs(position) > 0
             THEN [visible |-> now.visible, unseen_blocks |-> now.unseen_blocks,
                   result |-> "ALL_OK", trace |-> order]
             ELSE do_move_loop(now, position, 1, order)

----------------------------------------------------------------------------
\* The reveal with an explicit frontier of pending positions, taken in any
\* order: a stack, a queue and the recursion's own order are among them.

\* a valid move is entered and becomes the only pending position
FrontierRequestMove ==
    /\ pc = "request_move"
    /\ \E m \in Inputs :
           /\ is_valid_move(m)
           /\ move' = Position(m)
           /\ frontier' = {Position(m)}
    /\ before' = [visible |-> Visible, unseen_blocks |-> unseen_blocks]
    /\ trace' = <<>>
    /\ result' = "NONE"
    /\ pc' = "frontier"
    /\ moves' = moves + 1
    /\ asked' = NotAsked
    /\ UNCHANGED <<config, board, n, unseen_blocks, stack, err, checked>>

\* the in-bounds neighbours of position that are still hidden
HiddenNeighbours(position) ==
    {Window(position)[i] : i \in
        {j \in 1..9 :
            /\ is_in_valid_height_range(Window(position)[j].y)
            /\ is_in_valid_width_range(Window(position)[j].x)
            /\ <<Window(position)[j].x, Window(position)[j].y>> # CellOf(position)
            /\ is_invisible(board[<<Window(position)[j].x, Window(position)[j].y>>])}}

\* some pending position is taken: skipped if visible by now, else revealed
\* and counted, its hidden neighbours becoming pending if no bomb is near
FrontierStep ==
    /\ pc = "frontier"
    /\ \E p \in frontier :
           IF is_visible(get_block(p))
           THEN /\ frontier' = frontier \ {p}
                /\ UNCHANGED <<board, unseen_blocks, trace>>
           ELSE /\ board' = [board EXCEPT ![CellOf(p)] = make_visible(@)]
                /\ unseen_blocks' = unseen_blocks - 1
                /\ trace' = Append(trace, CellOf(p))
                /\ frontier' =
                       IF is_mine(get_block(p)) \/ get_block_near_bombs(p) > 0
                       THEN frontier \ {p}
                       ELSE (frontier \ {p}) \cup HiddenNeighbours(p)
    /\ UNCHANGED <<config, moves, asked, n, pc, stack, result, err, move,
                   before, checked>>

\* nothing is pending: FOUND_MINE if the move was on a mine, else ALL_OK
FrontierReturn ==
    /\ pc = "frontier"
    /\ frontier = {}
    /\ result' = IF is_mine(get_block(move)) THEN "FOUND_MINE" ELSE "ALL_OK"
    /\ pc' = "returned"
    /\ UNCHANGED <<config, moves, asked, frontier, board, n, unseen_blocks,
                   stack, err, move, before, trace, checked>>

NextFrontier == Next \/ FrontierRequestMove \/ FrontierStep \/ FrontierReturn

FrontierSpec == Init /\ [][NextFrontier]_vars

----------------------------------------------------------------------------
\* A caller that asks is_valid_move about some input and then asks again
\* about the same input, with no move in between.

\* the arguments asked about: every block, positions one past the right
\* and the bottom edge, and a line that is no coordinate pair
Asks ==
    {FormatMove(x, y) : x \in 0..board_width, y \in 0..board_height}
    \cup {<<"h">>}

\* what one call of is_valid_move(m) leaves behind
Asked(m) ==
    [input |-> m, valid |-> is_valid_move(m), calls |-> asked.calls + 1,
     previous |-> asked.valid]

\* is_valid_move that also marks the block it accepts as visible
ValidateMoveMarksBlock ==
    /\ pc = "request_move"
    /\ asked.calls < MaxAsks
    /\ \E m \in Asks :
           /\ asked.calls > 0 => m = asked.input
           /\ asked' = Asked(m)
           /\ board' = IF is_valid_move(m)
                        THEN [board EXCEPT ![CellOf(Position(m))] = make_visible(@)]
                        ELSE board
    /\ UNCHANGED <<config, moves, frontier, n, unseen_blocks, pc, stack,
                   result, err, move, before, trace, checked>>

\* one call of is_valid_move: it only reads the board
ValidateMove ==
    /\ pc = "request_move"
    /\ asked.calls < MaxAsks
    /\ \E m \in Asks :
           /\ asked.calls > 0 => m = asked.input
           /\ asked' = Asked(m)
    /\ UNCHANGED <<config, moves, frontier, board, n, unseen_blocks, pc,
                   stack, result, err, move, before, trace, checked>>

NextValidate == Next \/ ValidateMove

ValidateSpec == Init /\ [][NextValidate]_vars

----------------------------------------------------------------------------
\* Construction from any three integers, the invalid ones included.

InitAny ==
    \E w \in 0..MaxCells, h \in 0..MaxCells :
        /\ w * h <= MaxCells
        /\ \E m \in (0 - 1)..(w * h + 1) : InitWith(w, h, m)

NextAny == Next \/ MakeBoardRandintFails

SpecAny == InitAny /\ [][NextAny]_vars

----------------------------------------------------------------------------
\* A caller other than start() that hands do_move a position request_move
\* would have refused: out of the board, or of a block already visible.
\* One such call is explored per game.

DoMoveUnchecked ==
    /\ pc = "request_move"
    /\ checked
    /\ \E x \in (0 - 1)..board_width, y \in (0 - 1)..board_height :
           /\ ~is_valid_move(FormatMove(x, y))
           /\ Call(Position(FormatMove(x, y)))
    /\ checked' = FALSE
    /\ UNCHANGED <<config, frontier, board, n, unseen_blocks, err>>

NextApi == Next \/ DoMoveUnchecked \/ DoMoveIndexError

SpecApi == Init /\ [][NextApi]_vars

----------------------------------------------------------------------------
\* Reference notions the properties are stated with.

Adjacent(c, d) ==
    /\ c # d
    /\ c[1] - d[1] \in {0 - 1, 0, 1}
    /\ c[2] - d[2] \in {0 - 1, 0, 1}

\* mines among the in-bounds neighbours of c, the centre excluded
AdjacentMines(c) == Cardinality({d \in Mines : Adjacent(c, d)})

ZeroCells == {c \in Cells : AdjacentMines(c) = 0}

RECURSIVE Grow(_)
Grow(S) ==
    LET T == S \cup {d \in ZeroCells : \E c \in S : Adjacent(c, d)}
    IN  IF T = S THEN S ELSE Grow(T)

\* the maximal 8-connected region of zero-count cells that contains c
ZeroRegion(c) == Grow({c})

Bordering(R) == {d \in Cells : \E c \in R : Adjacent(c, d)}

SafeCells == Cells \ Mines

PositionOf(c) == [x |-> c[1], y |-> c[2]]

\* no do_move call is active and the board is built
BetweenCalls == pc \in {"request_move", "returned", "lost", "won", "exited"}

----------------------------------------------------------------------------
\* C1: whenever no move is being applied, is_game_over() is true exactly
\* when every non-mine block is visible, also right after a move that
\* returned FOUND_MINE.
C1_GameOverIffAllSafeVisible ==
    BetweenCalls => (is_game_over <=> SafeCells \subseteq Visible)

\* C2: do_move on a hidden mine returns FOUND_MINE and leaves unseen_blocks
\* at the value it had before the call.
C2_MineLeavesUnseenBlocks ==
    (pc \in {"returned", "lost"} /\ is_mine(get_block(move)))
        => (result = "FOUND_MINE" /\ unseen_blocks = before.unseen_blocks)

\* C3: a move on a hidden non-mine block with no mine around it makes
\* visible exactly the hidden blocks of its maximal zero-count region and of
\* that region's border; every other block keeps its visibility.
C3_CascadeRevealsRegionAndBorder ==
    (pc = "returned" /\ ~is_mine(get_block(move))
        /\ AdjacentMines(CellOf(move)) = 0)
        => /\ Visible \ before.visible =
                (ZeroRegion(CellOf(move)) \cup Bordering(ZeroRegion(CellOf(move))))
                    \ before.visible
           /\ before.visible \subseteq Visible

C3_Witness ==
    /\ pc = "returned"
    /\ ~is_mine(get_block(move))
    /\ AdjacentMines(CellOf(move)) = 0
    /\ Cardinality(ZeroRegion(CellOf(move))) >= 2
    /\ Bordering(ZeroRegion(CellOf(move))) \cap before.visible # {}
    /\ Visible # Cells

\* C4: a visible mine is the block the player's own move targeted, revealed
\* by the first step of that move and not by the cascade; there is at most
\* one, and the move that revealed it returned FOUND_MINE.
C4_NoMineRevealedByCascade ==
    /\ Cardinality(Mines \cap Visible) <= 1
    /\ \A c \in Mines \cap Visible :
           /\ c = CellOf(move)
           /\ trace = <<c>>
           /\ pc \in {"returned", "lost"}
           /\ result = "FOUND_MINE"

C4_Witness ==
    /\ pc = "lost"
    /\ Mines \cap Visible # {}
    /\ (ZeroCells \ Mines) \cap Visible # {}
    /\ Cardinality(Mines) >= 2

\* C5: for every block, mine or not, get_block_near_bombs is the number of
\* mines among its in-bounds neighbours, the block itself excluded.
C5_NearBombsExcludesCentre ==
    \A c \in Cells : get_block_near_bombs(PositionOf(c)) = AdjacentMines(c)

\* C6: once the board is built it holds exactly number_of_mines mines, and
\* no later step changes which blocks are mines.
C6_MinesExactAndFixed ==
    /\ [](pc # "make_board" => Cardinality(Mines) = number_of_mines)
    /\ [][pc # "make_board" => Mines' = Mines]_vars

C6_Witness ==
    /\ pc = "returned"
    /\ number_of_mines >= 2
    /\ Cardinality(Mines) = number_of_mines
    /\ Cardinality(Visible) >= 2

\* C7: with an invalid configuration construction fails: it never yields a
\* board that a game is played on.
C7_InvalidConfigurationFails ==
    ~ValidConfiguration(board_width, board_height, number_of_mines)
        => pc \in {"make_board", "error"}

\* C8: do_move called on a position that is out of bounds or already
\* visible fails with an error and changes neither the visibility of any
\* block nor unseen_blocks.
C8_DoMoveChecksPrecondition ==
    ~checked
        => /\ Visible = before.visible
           /\ unseen_blocks = before.unseen_blocks
           /\ pc \in {"do_move", "error"}

\* C9: is_valid_move on the pair (x, y) is true exactly when 0 <= x < width,
\* 0 <= y < height and the block at (x, y) is not visible.
C9_ValidMoveIffInBoundsAndHidden ==
    \A x \in (0 - 1)..board_width, y \in (0 - 1)..board_height :
        is_valid_move(FormatMove(x, y))
            <=> /\ 0 <= x /\ x < board_width
                /\ 0 <= y /\ y < board_height
                /\ ~is_visible(board[<<x, y>>])

C9_Witness ==
    /\ board_width > board_height
    /\ board_height > 1
    /\ <<width, 0>> \in Visible
    /\ is_valid_move(FormatMove(width, height))
    /\ ~is_valid_move(FormatMove(width, 0))
    /\ ~is_valid_move(FormatMove(0, board_height))

C11_Lifecycle ==
    [][/\ pc = "returned" =>
            pc' = IF result = "FOUND_MINE" THEN "lost"
                  ELSE IF is_game_over THEN "won" ELSE "request_move"
       /\ pc' = "lost" => (pc = "returned" /\ result = "FOUND_MINE")
       /\ pc' = "won" => (pc = "returned" /\ result = "ALL_OK" /\ is_game_over)
       /\ pc' = "do_move" => pc \in {"request_move", "do_move"}
       /\ pc \notin {"lost", "won"}]_vars

C11_Witness ==
    /\ pc = "lost"
    /\ result = "FOUND_MINE"
    /\ is_game_over
    /\ Cardinality(Visible) >= 2

\* C12: on a board without mines the first move, on whatever block, returns
\* ALL_OK, makes every block visible and leaves is_game_over() true.
C12_NoMinesOneMoveWins ==
    (pc = "returned" /\ number_of_mines = 0)
        => /\ before.visible = {}
           /\ result = "ALL_OK"
           /\ Visible = Cells
           /\ is_game_over

C12_Witness ==
    /\ pc = "returned"
    /\ number_of_mines = 0
    /\ board_width >= 3
    /\ board_height >= 2
    /\ CellOf(move) = <<1, 1>>

\* C13: a move on a hidden mine, or on a hidden non-mine block with a mine
\* next to it, makes that one block visible and no other: FOUND_MINE for
\* the mine, ALL_OK otherwise.
C13_NoCascadeFromMineOrCount ==
    (pc = "returned"
        /\ (is_mine(get_block(move)) \/ AdjacentMines(CellOf(move)) > 0))
        => /\ CellOf(move) \notin before.visible
           /\ Visible = before.visible \cup {CellOf(move)}
           /\ trace = <<CellOf(move)>>
           /\ result = IF is_mine(get_block(move)) THEN "FOUND_MINE" ELSE "ALL_OK"

C13_Witness ==
    /\ pc = "returned"
    /\ ~is_mine(get_block(move))
    /\ AdjacentMines(CellOf(move)) = 1
    /\ \E c \in ZeroCells \ Mines : Adjacent(c, CellOf(move)) /\ c \notin Visible

\* C15: unseen_blocks starts at width * height - number_of_mines, and as
\* long as no mine has been hit it is, at every step of every move, the
\* number of hidden non-mine blocks: each non-mine block that becomes
\* visible lowers it by one.
C15_UnseenBlocksCountsHiddenSafe ==
    /\ (pc = "request_move" /\ Visible = {})
           => unseen_blocks = board_width * board_height - number_of_mines
    /\ (pc # "make_board" /\ Mines \cap Visible = {})
           => unseen_blocks = Cardinality(SafeCells \ Visible)
    /\ (pc = "returned" /\ result = "ALL_OK")
           => before.unseen_blocks - unseen_blocks =
                  Cardinality((Visible \ before.visible) \cap SafeCells)

C15_Witness ==
    /\ pc = "returned"
    /\ result = "ALL_OK"
    /\ before.visible # {}
    /\ before.unseen_blocks - unseen_blocks >= 3
    /\ unseen_blocks > 0

\* C20: between moves, every visible non-mine block with no mine next to it
\* has all its in-bounds neighbours visible.
C20_CascadeClosure ==
    BetweenCalls
        => \A c \in (ZeroCells \ Mines) \cap Visible : Bordering({c}) \subseteq Visible

C20_Witness ==
    /\ pc = "request_move"
    /\ (ZeroCells \ Mines) \cap Visible # {}
    /\ Cardinality(Cells \ Visible) >= 2
    /\ number_of_mines = 1


\* C18: during a move at most one reveal activation is active at a time,
\* the pending blocks being kept in a frontier, so that the nesting depth
\* does not grow with the zero-count region.
C18_NestingDepthBounded == Len(stack) <= 1

\* C19: while the game is in progress some move is valid; every applied
\* move makes at least one hidden block visible; at most width * height
\* moves are applied, and a game whose player keeps entering valid moves
\* ends won or lost.
C19_Progress ==
    /\ [](pc = "request_move" => \E m \in Inputs : is_valid_move(m))
    /\ [](pc = "returned"
            => (before.visible \subseteq Visible /\ before.visible # Visible))
    /\ [](moves <= board_width * board_height)
    /\ (pc = "request_move" ~> pc \in {"won", "lost"})

C19_Witness ==
    /\ pc = "won"
    /\ moves = board_width * board_height - number_of_mines
    /\ moves >= 3
    /\ number_of_mines >= 2


\* C14: a call of is_valid_move changes neither the board nor
\* unseen_blocks, and a call that repeats the argument of the call before,
\* with no move in between, returns what that call returned.
C14_ValidateMoveIdempotent ==
    /\ [](asked.calls >= 2 => asked.valid = asked.previous)
    /\ [][asked'.calls > asked.calls
            => (board' = board /\ unseen_blocks' = unseen_blocks)]_vars

C14_Witness ==
    /\ asked.valid
    /\ asked.calls = 2
    /\ Visible # {}
    /\ Visible # Cells


\* C16: no step of any operation makes a visible block hidden again.
C16_VisibilityMonotonic ==
    [][\A c \in Cells : is_visible(board[c]) => is_visible(board'[c])]_vars

C16_Witness ==
    /\ pc = "returned"
    /\ before.visible # {}
    /\ before.visible \subseteq Visible
    /\ Len(trace) >= 2
    /\ moves >= 3


====
